---- MODULE Spec2Model ----
(***************************************************************************)
(* Model of the celebrity-sampling scrapers:                               *)
(*   - find_dating_links_bfs    (scripts/snowball_collector.py)            *)
(*   - parse_partners_from_history, is_individual_slug,                    *)
(*     safe_slug_from_href, infer_gender_from_about (scripts/wd_utils.py)  *)
(*                                                                         *)
(* The web site is the environment: the content of a page (or the failure  *)
(* of its fetch) is revealed when the page is fetched and stays the same   *)
(* for the rest of the run.                                                *)
(***************************************************************************)
EXTENDS Integers, Sequences, FiniteSets, TLC

VARIABLES
    seed,            \* start_slug
    target,          \* target_num
    queue,           \* queue     : list of slugs
    visited,         \* visited   : set of slugs
    collected,       \* collected : list of slugs
    current,         \* current   : the slug popped in this iteration
    pc,              \* position in find_dating_links_bfs
    result,          \* the returned list (once pc = "done")
    pages,           \* the site as revealed so far: slug -> fetch outcome
    fetchLog,        \* history: slugs passed to fetch_soup, in order
    enqueued,        \* history: slugs appended to queue by line 59, in order
    exhaustedLogged, \* history: line 65 ("Queue exhausted ...") was logged
    discarded,       \* history: line 41 (`continue` on a visited slug) ran
    linksSeen,       \* history: anchors read from dating-history containers
    href,            \* input of safe_slug_from_href
    slugOut,         \* output of safe_slug_from_href
    about,           \* input of infer_gender_from_about
    genderOut,       \* output of infer_gender_from_about
    unslept,         \* history: a fetch was made and no sleep_rate_limit since
    backToBack,      \* history: some fetch was made while unslept
    wpSlugs,         \* write_profiles: slugs
    wpIdx,           \* write_profiles: position of the for loop in slugs
    written,         \* write_profiles: written
    letterIdx,       \* alphabet main: position of the for loop in letters
    perLetter,       \* alphabet main: n (number_per_letter)
    seenSlugs,       \* alphabet main: seen
    allSlugs         \* alphabet main: all_slugs

vars == <<seed, target, queue, visited, collected, current, pc, result, pages,
          fetchLog, enqueued, exhaustedLogged, discarded, linksSeen,
          href, slugOut, about, genderOut, unslept, backToBack,
          wpSlugs, wpIdx, written, letterIdx, perLetter, seenSlugs, allSlugs>>

slugVars == <<href, slugOut>>
genderVars == <<about, genderOut>>
rateVars == <<unslept, backToBack>>
pipeVars == <<wpSlugs, wpIdx, written>>
letterVars == <<letterIdx, perLetter, seenSlugs, allSlugs>>

(***************************************************************************)
(* Bounds                                                                  *)
(***************************************************************************)
MaxLinks == 4     \* anchors in all the dating-history containers of the site
MaxTarget == 4    \* largest target_num tried
MaxSegs == 4      \* "/"-separated segments of an href
MaxWords == 4     \* words of an about paragraph
MaxLetters == 2   \* listing pages visited by the alphabet collector (26 in the code)

\* Slugs of individual pages, and one couple page the site also links to.
Slugs == {"a", "b", "c", "d"}
CoupleSlugs == {"a-and-b"}
LinkTargets == Slugs \cup CoupleSlugs

\* All sequences over S of length 0..n
RECURSIVE SeqsUpTo(_, _)
SeqsUpTo(S, n) ==
    IF n = 0 THEN {<<>>}
    ELSE LET shorter == SeqsUpTo(S, n - 1)
         IN  shorter \cup {Append(s, x) : s \in {t \in shorter : Len(t) = n - 1}, x \in S}

Range(s) == {s[i] : i \in 1..Len(s)}

\* The anchors of a dating-history container, each already resolved to a slug:
\* every list of at most n link targets.
Containers(n) == SeqsUpTo(LinkTargets, n)

(***************************************************************************)
(* wd_utils.py                                                             *)
(***************************************************************************)
\* is_individual_slug: couple pages ("-and-", "couple") are rejected.
is_individual_slug(slug) == slug \notin CoupleSlugs

\* lines 186-192: deduplicate preserving first-seen order
RECURSIVE Unique(_, _)
Unique(partners, seen) ==
    IF partners = <<>> THEN <<>>
    ELSE IF Head(partners) \in seen
         THEN Unique(Tail(partners), seen)
         ELSE <<Head(partners)>> \o Unique(Tail(partners), seen \cup {Head(partners)})

\* parse_partners_from_history: keep individual slugs, then deduplicate.
parse_partners_from_history(container) ==
    Unique(SelectSeq(container, is_individual_slug), {})

\* str.lower() on the words and path segments used here
Lower(w) ==
    CASE w = "Dating" -> "dating"
      [] w = "She" -> "she"
      [] w = "Actor" -> "actor"
      [] OTHER -> w

\* A string is written as the list of its "/"-separated segments, so that
\* "/dating//x" is <<"", "dating", "", "x">> and "" is <<"">>.
EmptyStr == <<"">>
SegAlphabet == {"", "dating", "Dating", "x"}
Hrefs == SeqsUpTo(SegAlphabet, MaxSegs) \ {<<>>}

\* urlparse(href).path for an href without scheme, query or fragment: a leading
\* "//" makes the next segment the host and leaves the rest as the path.
urlparse_path(h) ==
    IF Len(h) >= 3 /\ h[1] = "" /\ h[2] = ""
    THEN IF Len(h) >= 4 THEN <<"">> \o SubSeq(h, 4, Len(h)) ELSE EmptyStr
    ELSE h

\* str.strip("/")
RECURSIVE lstrip(_)
lstrip(s) == IF Len(s) > 1 /\ Head(s) = "" THEN lstrip(Tail(s)) ELSE s
RECURSIVE rstrip(_)
rstrip(s) == IF Len(s) > 1 /\ s[Len(s)] = "" THEN rstrip(SubSeq(s, 1, Len(s) - 1)) ELSE s
strip(s) == rstrip(lstrip(s))

None == [absent |-> TRUE, slug |-> ""]
Some(x) == [absent |-> FALSE, slug |-> x]

\* safe_slug_from_href
safe_slug_from_href(h) ==
    IF h = EmptyStr THEN None
    ELSE LET parsed == urlparse_path(h)
             path == strip(IF parsed # EmptyStr THEN parsed ELSE h)
             parts == path   \* path.split("/")
         IN  IF path = EmptyStr THEN None
             ELSE IF Len(parts) >= 2 /\ Lower(parts[1]) = "dating"
                  THEN Some(parts[2])
                  ELSE Some(parts[Len(parts)])

\* The about paragraph: absent, or the words of its text.
Vocabulary == {"she", "her", "he", "his", "actress", "actor", "was", "She", "Actor"}
Abouts == {[present |-> FALSE, words |-> <<>>]}
          \cup {[present |-> TRUE, words |-> w] : w \in SeqsUpTo(Vocabulary, MaxWords)}

\* re.search(r"\b(w1|w2|..)\b", text) on the lowered text
search(alternatives, words) == \E i \in 1..Len(words) : Lower(words[i]) \in alternatives

\* Variant of infer_gender_from_about: occupation words tested before pronouns
infer_gender_occupation_first(p) ==
    IF ~p.present THEN "unknown"
    ELSE IF search({"actress"}, p.words) THEN "female"
    ELSE IF search({"actor"}, p.words) /\ ~search({"actress"}, p.words) THEN "male"
    ELSE IF search({"she", "her"}, p.words) THEN "female"
    ELSE IF search({"he", "his"}, p.words) THEN "male"
    ELSE "unknown"

\* infer_gender_from_about
infer_gender_from_about(p) ==
    IF ~p.present THEN "unknown"
    ELSE IF search({"she", "her"}, p.words) THEN "female"
    ELSE IF search({"he", "his"}, p.words) THEN "male"
    ELSE IF search({"actress"}, p.words) THEN "female"
    ELSE IF search({"actor"}, p.words) /\ ~search({"actress"}, p.words) THEN "male"
    ELSE "unknown"

(***************************************************************************)
(* snowball_collector.py : find_dating_links_bfs                           *)
(***************************************************************************)
NotFetched == [st |-> "none", partners |-> <<>>]
Failed == [st |-> "fail", partners |-> <<>>]
Fetched(partners) == [st |-> "ok", partners |-> partners]

\* line 38: while queue and len(collected) < target_num
LoopCond(q, c, t) == q # <<>> /\ Len(c) < t

\* Variant of Pop0: queue.pop() takes the newest entry
PopLast(q) == [current |-> q[Len(q)], rest |-> SubSeq(q, 1, Len(q) - 1)]

\* line 39: current = queue.pop(0)
Pop0(q) == [current |-> Head(q), rest |-> Tail(q)]

\* Variant of EnqueuePartners: a `break` after the first appended partner
RECURSIVE EnqueueOnePartner(_, _, _, _)
EnqueueOnePartner(q, v, c, partners) ==
    IF partners = <<>> THEN q
    ELSE LET p == Head(partners)
         IN  IF p \notin v /\ p \notin Range(q) /\ p \notin Range(c)
             THEN Append(q, p)
             ELSE EnqueueOnePartner(q, v, c, Tail(partners))

\* Variant of EnqueuePartners: queue.insert(0, p) instead of queue.append(p)
RECURSIVE EnqueueFront(_, _, _, _)
EnqueueFront(q, v, c, partners) ==
    IF partners = <<>> THEN q
    ELSE LET p == Head(partners)
             q2 == IF p \notin v /\ p \notin Range(q) /\ p \notin Range(c)
                   THEN <<p>> \o q ELSE q
         IN  EnqueueFront(q2, v, c, Tail(partners))

\* Variant of EnqueuePartners: the `p not in queue` test is missing
RECURSIVE EnqueueNoQueueTest(_, _, _, _)
EnqueueNoQueueTest(q, v, c, partners) ==
    IF partners = <<>> THEN q
    ELSE LET p == Head(partners)
             q2 == IF p \notin v /\ p \notin Range(c)
                   THEN Append(q, p) ELSE q
         IN  EnqueueNoQueueTest(q2, v, c, Tail(partners))

\* lines 57-59: append the partners that pass the three membership tests
RECURSIVE EnqueuePartners(_, _, _, _)
EnqueuePartners(q, v, c, partners) ==
    IF partners = <<>> THEN q
    ELSE LET p == Head(partners)
             q2 == IF p \notin v /\ p \notin Range(q) /\ p \notin Range(c)
                   THEN Append(q, p) ELSE q
         IN  EnqueuePartners(q2, v, c, Tail(partners))

\* Variant of ProcessPage: partners are collected when they are discovered,
\* and current is appended without the membership test
ProcessPageEager(q, v, c, cur, partners) ==
    LET q2 == EnqueuePartners(q, v, c, partners)
    IN  [collected |-> Append(c, cur) \o SubSeq(q2, Len(q) + 1, Len(q2)),
         queue |-> q2]

\* lines 54-59: the effect of a successfully fetched page on collected, queue
ProcessPage(q, v, c, cur, partners) ==
    LET c2 == IF cur \notin Range(c) THEN Append(c, cur) ELSE c
    IN  [collected |-> c2, queue |-> EnqueuePartners(q, v, c2, partners)]

\* line 68: collected[:target_num]
Truncate(c, t) == SubSeq(c, 1, IF Len(c) < t THEN Len(c) ELSE t)

\* The traversal before it starts (lines 32-34), for a given seed and target
InitBfs(s, t) ==
    /\ seed = s
    /\ target = t
    /\ queue = <<s>>
    /\ visited = {}
    /\ collected = <<>>
    /\ current = ""
    /\ result = <<>>
    /\ pages = [x \in Slugs |-> NotFetched]
    /\ fetchLog = <<>>
    /\ enqueued = <<>>
    /\ exhaustedLogged = FALSE
    /\ discarded = FALSE
    /\ linksSeen = 0

\* No request made yet; write_profiles and the alphabet collector not running
InitIdle ==
    /\ unslept = FALSE /\ backToBack = FALSE
    /\ wpSlugs = <<>> /\ wpIdx = 1 /\ written = 0
    /\ letterIdx = 1 /\ perLetter = 1 /\ seenSlugs = {} /\ allSlugs = <<>>

InitOther ==
    /\ href = EmptyStr /\ slugOut = None
    /\ about = [present |-> FALSE, words |-> <<>>] /\ genderOut = "unknown"
    /\ InitIdle

\* A request that is followed by no sleep_rate_limit() before the next one
\* can be made
FetchNoSleep ==
    /\ backToBack' = (backToBack \/ unslept)
    /\ unslept' = TRUE

\* A request followed by sleep_rate_limit() (snowball_collector.py line 62,
\* wd_utils.py line 278, alphabet_collector.py line 65)
FetchThenSleep ==
    /\ backToBack' = (backToBack \/ unslept)
    /\ unslept' = FALSE

\* lines 32-36
Init ==
    /\ \E s \in Slugs, t \in 1..MaxTarget : InitBfs(s, t)
    /\ pc = "loop"
    /\ InitOther

\* Variant of Dequeue: visited.add(current) is missing
DequeueNoMark ==
    /\ pc = "loop"
    /\ LoopCond(queue, collected, target)
    /\ LET popped == Pop0(queue) IN
        /\ current' = popped.current
        /\ queue' = popped.rest
        /\ IF popped.current \in visited
           THEN /\ discarded' = TRUE
                /\ pc' = "loop"
           ELSE /\ pc' = "fetch"
                /\ UNCHANGED discarded
    /\ UNCHANGED <<seed, target, visited, collected, result, pages, fetchLog,
                   enqueued, exhaustedLogged, linksSeen, slugVars, genderVars,
                   rateVars, pipeVars, letterVars>>

\* lines 38-42: loop test true, pop, visited test
Dequeue ==
    /\ pc = "loop"
    /\ LoopCond(queue, collected, target)
    /\ LET popped == Pop0(queue) IN
        /\ current' = popped.current
        /\ queue' = popped.rest
        /\ IF popped.current \in visited
           THEN /\ discarded' = TRUE
                /\ pc' = "loop"
                /\ UNCHANGED visited
           ELSE /\ visited' = visited \cup {popped.current}
                /\ pc' = "fetch"
                /\ UNCHANGED discarded
    /\ UNCHANGED <<seed, target, collected, result, pages, fetchLog, enqueued,
                   exhaustedLogged, linksSeen, slugVars, genderVars,
                   rateVars, pipeVars, letterVars>>

\* line 38: loop test false, fall through to the return
LoopExit ==
    /\ pc = "loop"
    /\ ~LoopCond(queue, collected, target)
    /\ pc' = "ret"
    /\ UNCHANGED <<seed, target, queue, visited, collected, current, result,
                   pages, fetchLog, enqueued, exhaustedLogged, discarded,
                   linksSeen, slugVars, genderVars,
                   rateVars, pipeVars, letterVars>>

\* Variant of FetchFail: the failed slug is un-visited and queued again (retry)
FetchFailRetry ==
    /\ pc = "fetch"
    /\ pages[current].st \in {"none", "fail"}
    /\ pages' = [pages EXCEPT ![current] = Failed]
    /\ fetchLog' = Append(fetchLog, current)
    /\ visited' = visited \ {current}
    /\ queue' = Append(queue, current)
    /\ pc' = "loop"
    /\ FetchNoSleep
    /\ UNCHANGED <<seed, target, collected, current, result,
                   enqueued, exhaustedLogged, discarded, linksSeen,
                   slugVars, genderVars, pipeVars, letterVars>>

\* Variant of FetchFail: the failed slug is collected all the same
FetchFailCollect ==
    /\ pc = "fetch"
    /\ pages[current].st \in {"none", "fail"}
    /\ pages' = [pages EXCEPT ![current] = Failed]
    /\ fetchLog' = Append(fetchLog, current)
    /\ collected' = Append(collected, current)
    /\ pc' = "loop"
    /\ FetchNoSleep
    /\ UNCHANGED <<seed, target, queue, visited, current, result,
                   enqueued, exhaustedLogged, discarded, linksSeen,
                   slugVars, genderVars, pipeVars, letterVars>>

\* Variant of FetchFail: `break` instead of `continue`
FetchFailHalt ==
    /\ pc = "fetch"
    /\ pages[current].st \in {"none", "fail"}
    /\ pages' = [pages EXCEPT ![current] = Failed]
    /\ fetchLog' = Append(fetchLog, current)
    /\ pc' = "ret"
    /\ FetchNoSleep
    /\ UNCHANGED <<seed, target, queue, visited, collected, current, result,
                   enqueued, exhaustedLogged, discarded, linksSeen,
                   slugVars, genderVars, pipeVars, letterVars>>

\* lines 44-49: fetch_soup raises; warning, continue
FetchFail ==
    /\ pc = "fetch"
    /\ pages[current].st \in {"none", "fail"}
    /\ pages' = [pages EXCEPT ![current] = Failed]
    /\ fetchLog' = Append(fetchLog, current)
    /\ pc' = "loop"
    /\ FetchNoSleep
    /\ UNCHANGED <<seed, target, queue, visited, collected, current, result,
                   enqueued, exhaustedLogged, discarded, linksSeen,
                   slugVars, genderVars, pipeVars, letterVars>>

\* lines 51-66, given the partners parsed from the fetched page:
\* collect, enqueue, sleep, exhaustion test
Expand(partners) ==
    LET after == ProcessPage(queue, visited, collected, current, partners) IN
        /\ collected' = after.collected
        /\ queue' = after.queue
        /\ enqueued' = enqueued \o SubSeq(after.queue, Len(queue) + 1, Len(after.queue))
        /\ IF after.queue = <<>> /\ Len(after.collected) < target
           THEN exhaustedLogged' = TRUE /\ pc' = "ret"
           ELSE UNCHANGED exhaustedLogged /\ pc' = "loop"

\* What a successful fetch of slug s can show.  A page fetched before has the
\* content it had (and a page whose fetch failed keeps failing); a new page has
\* any dating-history container the site still has room for.
PageMenu(s) ==
    IF pages[s].st = "ok" THEN {[partners |-> pages[s].partners, links |-> 0]}
    ELSE IF pages[s].st = "fail" THEN {}
    ELSE {[partners |-> parse_partners_from_history(k), links |-> Len(k)] :
             k \in Containers(MaxLinks - linksSeen)}

\* lines 44-66: fetch_soup succeeds
FetchOk ==
    /\ pc = "fetch"
    /\ \E page \in PageMenu(current) :
          /\ pages' = [pages EXCEPT ![current] = Fetched(page.partners)]
          /\ linksSeen' = linksSeen + page.links
          /\ Expand(page.partners)
    /\ fetchLog' = Append(fetchLog, current)
    /\ FetchThenSleep
    /\ UNCHANGED <<seed, target, visited, current, result, discarded,
                   slugVars, genderVars, pipeVars, letterVars>>

\* Variant of Return: every discovered slug is returned, unsliced
ReturnAll ==
    /\ pc = "ret"
    /\ result' = collected \o queue
    /\ pc' = "done"
    /\ UNCHANGED <<seed, target, queue, visited, collected, current, pages,
                   fetchLog, enqueued, exhaustedLogged, discarded, linksSeen,
                   slugVars, genderVars,
                   rateVars, pipeVars, letterVars>>

\* line 68
Return ==
    /\ pc = "ret"
    /\ result' = Truncate(collected, target)
    /\ pc' = "done"
    /\ UNCHANGED <<seed, target, queue, visited, collected, current, pages,
                   fetchLog, enqueued, exhaustedLogged, discarded, linksSeen,
                   slugVars, genderVars,
                   rateVars, pipeVars, letterVars>>

Next == Dequeue \/ LoopExit \/ FetchFail \/ FetchOk \/ Return

Spec == Init /\ [][Next]_vars

\* The traversal is sequential code and every fetch returns or times out
\* (timeout=15, wd_utils.py line 61), so a step that can be taken is taken.
FairSpec == Spec /\ WF_vars(Next)

(***************************************************************************)
(* safe_slug_from_href applied to every href                               *)
(***************************************************************************)
InitSlug ==
    /\ InitBfs("a", 1)
    /\ pc = "resolve"
    /\ href \in Hrefs
    /\ slugOut = None
    /\ about = [present |-> FALSE, words |-> <<>>] /\ genderOut = "unknown"
    /\ InitIdle

Resolve ==
    /\ pc = "resolve"
    /\ slugOut' = safe_slug_from_href(href)
    /\ pc' = "resolved"
    /\ UNCHANGED <<seed, target, queue, visited, collected, current, result,
                   pages, fetchLog, enqueued, exhaustedLogged, discarded,
                   linksSeen, href, genderVars,
                   rateVars, pipeVars, letterVars>>

NextSlug == Resolve

SpecSlug == InitSlug /\ [][NextSlug]_vars

(***************************************************************************)
(* infer_gender_from_about applied to every about paragraph                *)
(***************************************************************************)
InitGender ==
    /\ InitBfs("a", 1)
    /\ pc = "infer"
    /\ about \in Abouts
    /\ genderOut = "unknown"
    /\ href = EmptyStr /\ slugOut = None
    /\ InitIdle

Infer ==
    /\ pc = "infer"
    /\ genderOut' = infer_gender_from_about(about)
    /\ pc' = "inferred"
    /\ UNCHANGED <<seed, target, queue, visited, collected, current, result,
                   pages, fetchLog, enqueued, exhaustedLogged, discarded,
                   linksSeen, slugVars, about,
                   rateVars, pipeVars, letterVars>>

NextGender == Infer

SpecGender == InitGender /\ [][NextGender]_vars

(***************************************************************************)
(* wd_utils.py : write_profiles                                            *)
(***************************************************************************)
\* Lists without duplicates, as the collectors hand them to write_profiles
UniqueLists(S, n) == {q \in SeqsUpTo(S, n) : Cardinality(Range(q)) = Len(q)}

\* lines 262-269
InitWrite ==
    /\ InitBfs("a", 1)
    /\ href = EmptyStr /\ slugOut = None
    /\ about = [present |-> FALSE, words |-> <<>>] /\ genderOut = "unknown"
    /\ unslept = FALSE /\ backToBack = FALSE
    /\ letterIdx = 1 /\ perLetter = 1 /\ seenSlugs = {} /\ allSlugs = <<>>
    /\ pc = "write"
    /\ wpSlugs \in UniqueLists(Slugs, MaxTarget)
    /\ wpIdx = 1
    /\ written = 0

\* lines 271-274: fetch_profile returns None; continue
WriteFetchFail ==
    /\ pc = "write"
    /\ wpIdx <= Len(wpSlugs)
    /\ FetchNoSleep
    /\ wpIdx' = wpIdx + 1
    /\ UNCHANGED <<seed, target, queue, visited, collected, current, pc, result,
                   pages, fetchLog, enqueued, exhaustedLogged, discarded,
                   linksSeen, slugVars, genderVars, wpSlugs, written, letterVars>>

\* lines 271-278: fetch_profile returns a record; write, count, sleep
WriteFetchOk ==
    /\ pc = "write"
    /\ wpIdx <= Len(wpSlugs)
    /\ FetchThenSleep
    /\ written' = written + 1
    /\ wpIdx' = wpIdx + 1
    /\ UNCHANGED <<seed, target, queue, visited, collected, current, pc, result,
                   pages, fetchLog, enqueued, exhaustedLogged, discarded,
                   linksSeen, slugVars, genderVars, wpSlugs, letterVars>>

\* lines 279-280: the for loop is over; return written
WriteFinish ==
    /\ pc = "write"
    /\ wpIdx > Len(wpSlugs)
    /\ pc' = "written"
    /\ UNCHANGED <<seed, target, queue, visited, collected, current, result,
                   pages, fetchLog, enqueued, exhaustedLogged, discarded,
                   linksSeen, slugVars, genderVars, rateVars, pipeVars, letterVars>>

(***************************************************************************)
(* alphabet_collector.py : main's loop over fetch_letter_slugs             *)
(***************************************************************************)
\* fetch_letter_slugs lines 46-59: up to count individual, unseen slugs
RECURSIVE TakeSlugs(_, _, _, _)
TakeSlugs(anchors, seen, slugs, count) ==
    IF anchors = <<>> THEN slugs
    ELSE LET slug == Head(anchors) IN
         IF ~is_individual_slug(slug) \/ slug \in seen
         THEN TakeSlugs(Tail(anchors), seen, slugs, count)
         ELSE IF Len(slugs) + 1 >= count
              THEN Append(slugs, slug)
              ELSE TakeSlugs(Tail(anchors), seen \cup {slug}, Append(slugs, slug), count)

\* main lines 74-90
InitLetters ==
    /\ InitBfs("a", 1)
    /\ href = EmptyStr /\ slugOut = None
    /\ about = [present |-> FALSE, words |-> <<>>] /\ genderOut = "unknown"
    /\ unslept = FALSE /\ backToBack = FALSE
    /\ wpSlugs = <<>> /\ wpIdx = 1 /\ written = 0
    /\ pc = "letters"
    /\ perLetter \in 1..MaxTarget
    /\ letterIdx = 1
    /\ seenSlugs = {}
    /\ allSlugs = <<>>

\* fetch_letter_slugs lines 32-37: fetch_soup raises; return [] (main line 93
\* extends all_slugs by nothing)
LetterFetchFail ==
    /\ pc = "letters"
    /\ letterIdx <= MaxLetters
    /\ FetchNoSleep
    /\ letterIdx' = letterIdx + 1
    /\ UNCHANGED <<seed, target, queue, visited, collected, current, pc, result,
                   pages, fetchLog, enqueued, exhaustedLogged, discarded,
                   linksSeen, slugVars, genderVars, pipeVars,
                   perLetter, seenSlugs, allSlugs>>

\* fetch_letter_slugs lines 32-66 and main line 93: the page is fetched, its
\* slugs are taken, sleep, all_slugs.extend(slugs)
LetterFetchOk ==
    /\ pc = "letters"
    /\ letterIdx <= MaxLetters
    /\ \E anchors \in Containers(MaxLinks - linksSeen) :
          LET slugs == TakeSlugs(anchors, seenSlugs, <<>>, perLetter) IN
            /\ linksSeen' = linksSeen + Len(anchors)
            /\ seenSlugs' = seenSlugs \cup Range(slugs)
            /\ allSlugs' = allSlugs \o slugs
    /\ FetchThenSleep
    /\ letterIdx' = letterIdx + 1
    /\ UNCHANGED <<seed, target, queue, visited, collected, current, pc, result,
                   pages, fetchLog, enqueued, exhaustedLogged, discarded,
                   slugVars, genderVars, pipeVars, perLetter>>

\* main lines 91-98: the loop over the letters is over
LettersFinish ==
    /\ pc = "letters"
    /\ letterIdx > MaxLetters
    /\ pc' = "lettersDone"
    /\ UNCHANGED <<seed, target, queue, visited, collected, current, result,
                   pages, fetchLog, enqueued, exhaustedLogged, discarded,
                   linksSeen, slugVars, genderVars, rateVars, pipeVars, letterVars>>

(***************************************************************************)
(* The three components that make requests                                 *)
(***************************************************************************)
InitRate == Init \/ InitWrite \/ InitLetters

NextRate ==
    \/ Next
    \/ WriteFetchFail \/ WriteFetchOk \/ WriteFinish
    \/ LetterFetchFail \/ LetterFetchOk \/ LettersFinish

SpecRate == InitRate /\ [][NextRate]_vars

(***************************************************************************)
(* Properties                                                              *)
(***************************************************************************)
NoDuplicates(q) == Cardinality(Range(q)) = Len(q)

\* Position of x in a list without duplicates
Index(q, x) == CHOOSE i \in 1..Len(q) : q[i] = x

\* The partner links of the pages fetched successfully so far
Links(u) == IF pages[u].st = "ok" THEN Range(pages[u].partners) ELSE {}

\* Slugs reachable from the seed over those links
RECURSIVE Closure(_)
Closure(S) ==
    LET next == S \cup UNION {Links(u) : u \in S}
    IN  IF next = S THEN S ELSE Closure(next)
Reachable == Closure({seed})

\* Breadth-first distance from the seed over those links
Unreachable == Cardinality(Slugs) + 1
RECURSIVE Layer(_, _, _, _)
Layer(frontier, seen, d, s) ==
    IF s \in frontier THEN d
    ELSE IF frontier = {} THEN Unreachable
    ELSE LET next == UNION {Links(u) : u \in frontier} \ seen
         IN  Layer(next, seen \cup next, d + 1, s)
Dist(s) == Layer({seed}, {seed}, 0, s)

NoFetchFailed == \A s \in Slugs : pages[s].st # "fail"

\* C1: collected never holds an identifier twice.
C1_NoDuplicateCollected == NoDuplicates(collected)

\* C1 witness: three slugs collected although a fetched page links back to a
\* slug collected earlier.
C1_Witness ==
    /\ Len(collected) >= 3
    /\ \E i, j \in 1..Len(collected) :
          i < j /\ collected[i] \in Links(collected[j])

\* C2: when no fetch failed and at least target slugs are reachable from the
\* seed, the traversal returns exactly target slugs.  (When the traversal ends
\* with fewer than target slugs the queue ran empty, so every reachable page
\* was fetched and Reachable is the whole reachable set.)
C2_ReturnsTarget ==
    (pc = "done" /\ NoFetchFailed /\ Cardinality(Reachable) >= target)
        => Len(result) = target

\* C2 witness: a finished run without failures that had to follow links two
\* steps away to reach a target of three.
C2_Witness ==
    /\ pc = "done" /\ NoFetchFailed /\ target >= 3
    /\ Cardinality(Reachable) >= target
    /\ \E s \in Range(result) : Dist(s) = 2

\* C3: the returned list is in non-decreasing breadth-first distance from the
\* seed, and a successful fetch appends partners to the back of the queue in
\* the order the extractor listed them.
C3_DistanceOrder ==
    pc = "done" =>
        \A i, j \in 1..Len(result) : i < j => Dist(result[i]) <= Dist(result[j])

C3_OkStep == fetchLog' # fetchLog /\ pages'[current].st = "ok"

C3_PartnerOrder ==
    C3_OkStep =>
        LET listed == pages'[current].partners
            added == SubSeq(queue', Len(queue) + 1, Len(queue'))
        IN  /\ Len(queue') >= Len(queue)
            /\ SubSeq(queue', 1, Len(queue)) = queue
            /\ Range(added) \subseteq Range(listed)
            /\ \A i, j \in 1..Len(added) :
                  i < j => Index(listed, added[i]) < Index(listed, added[j])

C3_BreadthFirst == [](C3_DistanceOrder) /\ [][C3_PartnerOrder]_vars

\* C3 witness: a result with slugs at distance 0, 1 and 2, one page having
\* listed two partners that were both enqueued.
C3_Witness ==
    /\ pc = "done"
    /\ \E s \in Range(result) : Dist(s) = 2
    /\ \E s \in Range(result) : Len(pages[s].partners) >= 2
                                /\ Range(pages[s].partners) \subseteq Range(enqueued)

\* C4: the returned list is never longer than target.
C4_LengthAtMostTarget == pc = "done" => Len(result) <= target

\* C4 witness: the traversal stopped at the target with slugs still queued.
C4_Witness == pc = "done" /\ Len(result) = target /\ Len(queue) >= 2

\* C5: when the fetch of the seed fails there is exactly one fetch, the queue
\* ends empty, nothing was ever enqueued, and the result is empty.
C5_SeedFailure ==
    (pc = "done" /\ pages[seed].st = "fail") =>
        /\ fetchLog = <<seed>>
        /\ queue = <<>>
        /\ enqueued = <<>>
        /\ result = <<>>

\* C5 witness: a finished run whose seed fetch failed, with a target above 1.
C5_Witness == pc = "done" /\ pages[seed].st = "fail" /\ target >= 2

\* C6: on the site a -> [b, c], b -> [c, d], c -> [], d failing, with seed a
\* and target 4, the fetches are a, b, c, d in that order and the result is
\* [a, b, c].
ScenarioSite ==
    [s \in Slugs |->
        CASE s = "a" -> Fetched(<<"b", "c">>)
          [] s = "b" -> Fetched(<<"c", "d">>)
          [] s = "c" -> Fetched(<<>>)
          [] OTHER -> Failed]

OnScenarioSite ==
    /\ seed = "a" /\ target = 4
    /\ \A s \in Slugs : pages[s].st = "none" \/ pages[s] = ScenarioSite[s]

C6_Scenario ==
    (pc = "done" /\ OnScenarioSite) =>
        /\ fetchLog = <<"a", "b", "c", "d">>
        /\ result = <<"a", "b", "c">>

\* C6 witness: the scenario ran to its end and every page of it was fetched.
C6_Witness == pc = "done" /\ seed = "a" /\ target = 4 /\ pages = ScenarioSite

\* C7 (as claimed): whenever the traversal ends with fewer than target slugs
\* collected, the "Queue exhausted" line was logged.
C7_ExhaustionLogged ==
    (pc = "done" /\ Len(collected) < target) => exhaustedLogged

\* The four markers of an about paragraph
SheHer == about.present /\ search({"she", "her"}, about.words)
HeHis == about.present /\ search({"he", "his"}, about.words)
Actress == about.present /\ search({"actress"}, about.words)
Actor == about.present /\ search({"actor"}, about.words)

\* C8 (as claimed): she/her -> female; else he/his -> male; else actress and
\* not actor -> female; else actor and not actress -> male; else unknown.
C8_ClaimedTable ==
    pc = "inferred" =>
        genderOut = CASE SheHer -> "female"
                      [] ~SheHer /\ HeHis -> "male"
                      [] ~SheHer /\ ~HeHis /\ Actress /\ ~Actor -> "female"
                      [] ~SheHer /\ ~HeHis /\ Actor /\ ~Actress -> "male"
                      [] OTHER -> "unknown"

\* C8 (amended): the result is female exactly when she/her is present, or
\* he/his is absent and "actress" is present (with or without "actor"); male
\* exactly when she/her is absent and either he/his is present or "actor" is
\* present without "actress"; unknown otherwise.
C8_RuleTable ==
    pc = "inferred" =>
        /\ genderOut = "female" <=> (SheHer \/ (~HeHis /\ Actress))
        /\ genderOut = "male" <=> (~SheHer /\ (HeHis \/ (Actor /\ ~Actress)))
        /\ genderOut = "unknown" <=> (~SheHer /\ ~HeHis /\ ~Actress /\ ~Actor)

\* C8 witness: "she" together with "actor" (and he/his) gave female.
C8_Witness ==
    pc = "inferred" /\ SheHer /\ HeHis /\ Actor /\ ~Actress /\ genderOut = "female"

\* C9 (as claimed): safe_slug_from_href returns None or a non-empty string.
C9_NeverEmpty == pc = "resolved" => (slugOut.absent \/ slugOut.slug # "")

\* C10: a failed fetch leaves its slug in visited and out of collected, appends
\* nothing to the queue, and the loop goes on with the next queued slug.
C10_FailStep == fetchLog' # fetchLog /\ pages'[current].st = "fail"

C10_LastFetchFailed ==
    pc = "loop" /\ fetchLog # <<>> /\ pages[fetchLog[Len(fetchLog)]].st = "fail"

C10_FailureSkips ==
    /\ [](\A s \in Slugs : pages[s].st = "fail" => s \in visited /\ s \notin Range(collected))
    /\ [][C10_FailStep =>
            /\ current \in visited'
            /\ collected' = collected
            /\ queue' = queue
            /\ enqueued' = enqueued
            /\ pc' = "loop"]_vars
    /\ [][(C10_LastFetchFailed /\ LoopCond(queue, collected, target)) =>
            (pc' = "fetch" /\ current' = Head(queue))]_vars

\* C10 witness: a page was fetched successfully after an earlier fetch failed.
C10_Witness ==
    \E i, j \in 1..Len(fetchLog) :
        i < j /\ pages[fetchLog[i]].st = "fail" /\ pages[fetchLog[j]].st = "ok"


\* C11: the queue never holds a visited identifier, never holds an identifier
\* twice, and the discard of an already-visited dequeued identifier (line 41)
\* never runs.
C11_QueueDisjointFromVisited ==
    /\ Range(queue) \cap visited = {}
    /\ NoDuplicates(queue)
    /\ ~discarded

\* C11 witness: a slug still in the queue was listed by two fetched pages (the
\* second listing met the `p not in queue` test), and some fetched page listed
\* a visited slug.
C11_Witness ==
    /\ \E p \in Range(queue) : \E s, t \in Slugs :
          s # t /\ p \in Links(s) /\ p \in Links(t)
    /\ \E u \in Slugs : Links(u) \cap visited # {}

\* The enqueue loop of lines 57-59 with the `p not in collected` test left out
RECURSIVE EnqueueWithoutCollectedTest(_, _, _)
EnqueueWithoutCollectedTest(q, v, partners) ==
    IF partners = <<>> THEN q
    ELSE LET p == Head(partners)
             q2 == IF p \notin v /\ p \notin Range(q) THEN Append(q, p) ELSE q
         IN  EnqueueWithoutCollectedTest(q2, v, Tail(partners))

\* C13: collected is always a subset of visited; the `current not in collected`
\* test is true whenever it is reached; and every successful step leaves the
\* queue that the enqueue loop without the `p not in collected` test would
\* leave.  (The three tests have no side effect, so their order cannot change
\* the outcome; what can be checked is that the third test never decides.)
C13_CollectedInVisited ==
    /\ Range(collected) \subseteq visited
    /\ (pc = "fetch" => current \notin Range(collected))

C13_SameStep ==
    C3_OkStep =>
        /\ collected' = Append(collected, current)
        /\ queue' = EnqueueWithoutCollectedTest(queue, visited, pages'[current].partners)

C13_CollectedTestRedundant == [](C13_CollectedInVisited) /\ [][C13_SameStep]_vars

\* C13 witness: a collected page lists itself and a later collected page lists
\* an earlier one, so the guard met partners that were in collected.
C13_Witness ==
    /\ \E s \in Range(collected) : s \in Links(s)
    /\ \E i, j \in 1..Len(collected) :
          i < j /\ collected[i] \in Links(collected[j])
    /\ queue # <<>>

\* C14: the traversal terminates, no identifier is fetched twice, and the
\* number of fetches never exceeds the number of identifiers reachable from
\* the seed.
C14_FetchOnce ==
    /\ NoDuplicates(fetchLog)
    /\ Len(fetchLog) <= Cardinality(Reachable)

C14_TerminatesNoRetry == <>(pc = "done") /\ [](C14_FetchOnce)

\* C14 witness: a finished run that fetched every reachable identifier, at
\* least three of them, one of the fetches failing.
C14_Witness ==
    /\ pc = "done"
    /\ Len(fetchLog) >= 3
    /\ Len(fetchLog) = Cardinality(Reachable)
    /\ ~NoFetchFailed

\* C12 (as claimed): every fetch is followed by a rate-limit delay: no fetch is
\* made while the previous one is still without its delay, and no component
\* ends with its last fetch undelayed.
C12_DelayAfterEveryFetch ==
    /\ ~backToBack
    /\ (pc \in {"done", "written", "lettersDone"} => ~unslept)

TypeOK ==
    /\ pc \in {"loop", "fetch", "ret", "done", "resolve", "resolved", "infer", "inferred",
             "write", "written", "letters", "lettersDone"}
    /\ visited \subseteq Slugs
    /\ Range(queue) \subseteq Slugs
    /\ Range(collected) \subseteq Slugs
====
